---- MODULE Spec2Model ----
(***************************************************************************)
(* Student CRUD API with SQLite (app_2/main.py).                           *)
(*                                                                         *)
(* The table "students" is a set of rows keyed by id.  Every HTTP request  *)
(* is served on a worker thread: FastAPI resolves Depends(get_db) and      *)
(* validates the body, the handler runs its statements one store call at a *)
(* time, and get_db's finally closes the session.  Each store call (a      *)
(* SELECT, or the flush+COMMIT done by db.commit()) is one step, so the    *)
(* requests in flight interleave between their store calls.  What a        *)
(* request does before its first store call (opening the session,          *)
(* validating the body) and after its last one (building the response,     *)
(* closing the session) touches nothing shared and belongs to those steps. *)
(***************************************************************************)
EXTENDS Integers, FiniteSets, Bags, TLC

MaxId == 2          \* largest row id the table is allowed to reach
MaxRequests == 3    \* requests dispatched in one behaviour
NClients == 2       \* worker threads: requests served at the same time

Ids == 1..MaxId     \* student_id path parameters the clients send

VARIABLES
    store,       \* rows of table "students"
    req,         \* the requests in flight (a bag), each with where it stands
    sessions,    \* sessions opened by get_db and not yet closed
    started,     \* requests dispatched so far
    issued,      \* ids returned by successful creates so far
    deletedIds,  \* ids for which a delete has answered success
    net,         \* successful creates minus successful deletes
    last         \* the response sent last, with the request it answers and,
                 \* for a get, the create or update it directly follows

vars == <<store, req, sessions, started, issued, deletedIds, net, last>>

----------------------------------------------------------------------------
(* JSON values of a request body, before validation *)
Absent == [k |-> "absent", s |-> "", n |-> 0]
JStr(s) == [k |-> "str", s |-> s, n |-> 0]
JInt(n) == [k |-> "int", s |-> "", n |-> n]

(* the bodies the clients send: write shapes that differ in the name, in   *)
(* the age or in both, and bodies with a field of another JSON type or a   *)
(* missing field                                                           *)
FirstBody ==
    [name |-> JStr("Ann"), email |-> JStr("a@x.com"), age |-> JInt(20),
     course |-> JStr("CS")]

Bodies ==
    {FirstBody,
     [FirstBody EXCEPT !.name = JStr("")],
     [FirstBody EXCEPT !.name = JStr(""), !.age = JInt(21)]}
    \cup {[FirstBody EXCEPT !.age = JStr("20")],
          [FirstBody EXCEPT !.age = JStr("abc")],
          [FirstBody EXCEPT !.name = JInt(7)],
          [FirstBody EXCEPT !.course = Absent]}

(* pydantic (lax mode) parsing of a numeric string; {} when it is not one *)
str_to_int(s) ==
    CASE s = "20" -> {20}
      [] s = "21" -> {21}
      [] OTHER -> {}

(* a validator that converts a JSON number to a string instead of refusing it *)
validate_str_coercing(raw) ==
    IF raw.k = "str" THEN {raw.s} ELSE IF raw.k = "int" THEN {"7"} ELSE {}

(* field validators: the set holding the validated value, {} on error *)
validate_str(raw) == IF raw.k = "str" THEN {raw.s} ELSE {}

validate_int(raw) ==
    IF raw.k = "int" THEN {raw.n}
    ELSE IF raw.k = "str" THEN str_to_int(raw.s)
    ELSE {}

(* class Student(BaseModel): {validated write shape}, {} on ValidationError *)
Student(body) ==
    {[name |-> a, email |-> b, age |-> c, course |-> d] :
        a \in validate_str(body.name), b \in validate_str(body.email),
        c \in validate_int(body.age), d \in validate_str(body.course)}

(* a row built with name and email crossed over *)
StudentModel_swapped(id, w) ==
    [id |-> id, name |-> w.email, email |-> w.name, age |-> w.age, course |-> w.course]

(* class StudentModel(Base): the row built from a write shape and its id *)
StudentModel(id, w) ==
    [id |-> id, name |-> w.name, email |-> w.email, age |-> w.age, course |-> w.course]

(* class StudentResponse: model_validate(row) with from_attributes *)
StudentResponse(row) ==
    [id |-> row.id, name |-> row.name, email |-> row.email, age |-> row.age,
     course |-> row.course]

Fields(row) ==
    [name |-> row.name, email |-> row.email, age |-> row.age, course |-> row.course]

----------------------------------------------------------------------------
(* the store *)
MaxOf(S) == CHOOSE m \in S : \A x \in S : x <= m

(* id = Column(Integer, primary_key=True): an SQLite rowid alias without      *)
(* AUTOINCREMENT, so INSERT assigns one more than the largest id in the table *)
next_rowid(rows) == IF rows = {} THEN 1 ELSE MaxOf({r.id : r \in rows}) + 1

(* the query without its filter *)
first_unfiltered(rows, id) == rows

(* db.query(StudentModel).filter(StudentModel.id == student_id).first() *)
first(rows, id) == {r \in rows : r.id = id}

----------------------------------------------------------------------------
(* requests *)
NoRequest == [op |-> "none", pc |-> "start", id |-> 0, body |-> {}, loaded |-> {}]

NotFound == [status |-> 404, rows |-> {}, detail |-> "Student not found"]
ValidationError == [status |-> 422, rows |-> {}, detail |-> "validation error"]
Unexpected == [status |-> 500, rows |-> {}, detail |-> "Internal Server Error"]
Ok(status, rows, detail) == [status |-> status, rows |-> rows, detail |-> detail]

(* students.db outlives the process: at startup the table is empty or holds *)
(* what earlier runs left, here one record created by an earlier run        *)
Init ==
    /\ store \in {{}, {StudentModel(1, w) : w \in Student(FirstBody)}}
    /\ req = EmptyBag
    /\ sessions = 0
    /\ started = 0
    /\ issued = {x.id : x \in store}
    /\ deletedIds = {}
    /\ net = Cardinality(store)
    /\ last = [seq |-> 0, op |-> "none", id |-> 0, body |-> {}, status |-> 0,
               rows |-> {}, detail |-> "", after |-> {}]

(* def get_db(): db = SessionLocal(); yield db.  open: the sessions open   *)
(* before; the result: the sessions open with the new one                  *)
get_db(open) == open + 1

(* get_db without try/finally: db.close() is skipped when the request raised *)
get_db_no_finally(open, resp) == IF resp.status >= 400 THEN open ELSE open - 1

(* get_db: finally: db.close(), run however the request ended *)
get_db_finally(open, resp) == open - 1

(* FastAPI accepts a request when a worker thread is free *)
Accept ==
    /\ BagCardinality(req) < NClients
    /\ started < MaxRequests
    /\ started' = started + 1

(* request r ends with response resp (the handler returned or raised, or    *)
(* the body did not validate): the response goes out and get_db's finally   *)
(* closes the session.  open: the sessions open now, that of r included     *)
Respond(r, resp, open) ==
    /\ last' = [seq |-> last.seq + 1, op |-> r.op, id |-> r.id, body |-> r.body,
                status |-> resp.status, rows |-> resp.rows, detail |-> resp.detail,
                after |-> IF /\ r.op = "get"
                             /\ last.op \in {"create", "update"}
                             /\ last.status \in {200, 201}
                             /\ last.id = r.id
                          THEN {[op |-> last.op, body |-> last.body]}
                          ELSE {}]
    /\ sessions' = get_db_finally(open, resp)

(* a request answered within the step that accepted it *)
RespondAtOnce(r, resp) ==
    /\ Respond(r, resp, get_db(sessions))
    /\ UNCHANGED req

(* an accepted request whose handler has further store calls to make *)
Enter(r) ==
    /\ req' = req (+) SetToBag({r})
    /\ sessions' = get_db(sessions)
    /\ UNCHANGED last

(* request r in flight goes on to its next store call *)
Continue(r, pc) ==
    /\ req' = (req (-) SetToBag({r})) (+) SetToBag({[r EXCEPT !.pc = pc]})
    /\ UNCHANGED <<sessions, last>>

(* request r in flight ends with response resp *)
Finish(r, resp) ==
    /\ Respond(r, resp, sessions)
    /\ req' = req (-) SetToBag({r})

(* the request as the route receives it; body: {} or {the JSON body} *)
Request(op, id, body) == [NoRequest EXCEPT !.op = op, !.id = id, !.body = body]

(* student: Student, the validated body of request r; {} when the body does *)
(* not validate                                                             *)
student(r) == UNION {Student(b) : b \in r.body}

(* @app.post("/students/") up to create_student_func's db.add(db_student);  *)
(* db.commit().  A body that does not validate is answered 422 and the      *)
(* handler never runs                                                       *)
create_student ==
    /\ Accept
    /\ next_rowid(store) <= MaxId
    /\ \E body \in Bodies :
         LET r == Request("create", 0, {body})
             id == next_rowid(store)
         IN IF student(r) = {}
            THEN /\ RespondAtOnce(r, ValidationError)
                 /\ UNCHANGED store
            ELSE /\ store' = store \cup {StudentModel(id, w) : w \in student(r)}
                 /\ Enter([r EXCEPT !.pc = "refresh", !.id = id])
    /\ UNCHANGED <<issued, deletedIds, net>>

(* create_student_func: db.refresh(db_student); return model_validate(...). *)
(* Refreshing a row that is gone raises InvalidRequestError: a 500          *)
create_student_func_refresh ==
    \E r \in BagToSet(req) :
        /\ r.op = "create" /\ r.pc = "refresh"
        /\ LET rows == first(store, r.id)
           IN IF rows = {}
              THEN /\ Finish(r, Unexpected)
                   /\ UNCHANGED <<issued, net>>
              ELSE /\ Finish(r, Ok(201, {StudentResponse(x) : x \in rows}, ""))
                   /\ issued' = issued \cup {r.id}
                   /\ net' = net + 1
        /\ UNCHANGED <<store, started, deletedIds>>

(* @app.get("/students/") and get_all_students_func *)
get_all_students ==
    /\ Accept
    /\ RespondAtOnce(Request("list", 0, {}),
                     Ok(200, {StudentResponse(x) : x \in store}, ""))
    /\ UNCHANGED <<store, issued, deletedIds, net>>

(* @app.get("/students/{student_id}") and get_student_func *)
get_student ==
    /\ Accept
    /\ \E id \in Ids :
         LET rows == first(store, id)
             r == Request("get", id, {})
         IN IF rows = {}
            THEN RespondAtOnce(r, NotFound)
            ELSE RespondAtOnce(r, Ok(200, {StudentResponse(x) : x \in rows}, ""))
    /\ UNCHANGED <<store, issued, deletedIds, net>>

(* @app.put("/students/{student_id}") up to update_student_func's query and *)
(* existence check                                                          *)
update_student ==
    /\ Accept
    /\ \E id \in Ids, body \in Bodies :
         LET r == Request("update", id, {body})
             rows == first(store, id)
         IN IF student(r) = {}
            THEN RespondAtOnce(r, ValidationError)
            ELSE IF rows = {}
            THEN RespondAtOnce(r, NotFound)
            ELSE Enter([r EXCEPT !.pc = "commit", !.loaded = rows])
    /\ UNCHANGED <<store, issued, deletedIds, net>>

(* an UPDATE that sets the name alone *)
apply_update_name_only(cur, loaded, w) ==
    [id     |-> cur.id,
     name   |-> IF w.name # loaded.name THEN w.name ELSE cur.name,
     email  |-> cur.email,
     age    |-> cur.age,
     course |-> cur.course]

(* the UPDATE the unit of work emits: it sets the attributes whose value    *)
(* differs from the loaded one, on the row that has the id now              *)
apply_update(cur, loaded, w) ==
    [id     |-> cur.id,
     name   |-> IF w.name # loaded.name THEN w.name ELSE cur.name,
     email  |-> IF w.email # loaded.email THEN w.email ELSE cur.email,
     age    |-> IF w.age # loaded.age THEN w.age ELSE cur.age,
     course |-> IF w.course # loaded.course THEN w.course ELSE cur.course]

(* update_student_func: the setattr loop and db.commit().  No UPDATE is     *)
(* emitted when no attribute changed; an UPDATE matching no row raises      *)
(* StaleDataError, which surfaces as a 500                                  *)
update_student_func_commit ==
    \E r \in BagToSet(req) :
        /\ r.op = "update" /\ r.pc = "commit"
        /\ LET l == CHOOSE x \in r.loaded : TRUE
               w == CHOOSE x \in student(r) : TRUE
               rows == first(store, r.id)
           IN IF Fields(l) = w
              THEN /\ Continue(r, "refresh")
                   /\ UNCHANGED store
              ELSE IF rows = {}
              THEN /\ Finish(r, Unexpected)
                   /\ UNCHANGED store
              ELSE /\ store' = (store \ rows) \cup {apply_update(x, l, w) : x \in rows}
                   /\ Continue(r, "refresh")
        /\ UNCHANGED <<started, issued, deletedIds, net>>

(* update_student_func: db.refresh(db_student); return model_validate(...) *)
update_student_func_refresh ==
    \E r \in BagToSet(req) :
        /\ r.op = "update" /\ r.pc = "refresh"
        /\ LET rows == first(store, r.id)
           IN IF rows = {}
              THEN Finish(r, Unexpected)
              ELSE Finish(r, Ok(200, {StudentResponse(x) : x \in rows}, ""))
        /\ UNCHANGED <<store, started, issued, deletedIds, net>>

(* @app.delete("/students/{student_id}") up to delete_student_func's query  *)
(* and existence check                                                      *)
delete_student ==
    /\ Accept
    /\ \E id \in Ids :
         LET r == Request("delete", id, {})
             rows == first(store, id)
         IN IF rows = {}
            THEN RespondAtOnce(r, NotFound)
            ELSE Enter([r EXCEPT !.pc = "commit", !.loaded = rows])
    /\ UNCHANGED <<store, issued, deletedIds, net>>

(* delete_student_func without its db.commit(): the row stays *)
delete_student_func_no_commit ==
    \E r \in BagToSet(req) :
        /\ r.op = "delete" /\ r.pc = "commit"
        /\ Finish(r, Ok(200, {StudentResponse(x) : x \in r.loaded},
                        "Student deleted successfully"))
        /\ deletedIds' = deletedIds \cup {r.id}
        /\ net' = net - 1
        /\ UNCHANGED <<store, started, issued>>

(* delete_student_func: student_data, db.delete(db_student), db.commit().   *)
(* A DELETE that matches no row only warns, so the handler still returns    *)
delete_student_func_commit ==
    \E r \in BagToSet(req) :
        /\ r.op = "delete" /\ r.pc = "commit"
        /\ store' = store \ first(store, r.id)
        /\ Finish(r, Ok(200, {StudentResponse(x) : x \in r.loaded},
                        "Student deleted successfully"))
        /\ deletedIds' = deletedIds \cup {r.id}
        /\ net' = net - 1
        /\ UNCHANGED <<started, issued>>

(* the next store call of a request in flight *)
Advance ==
    \/ create_student_func_refresh
    \/ update_student_func_commit
    \/ update_student_func_refresh
    \/ delete_student_func_commit

(* requests served concurrently by the worker threads *)
Next ==
    \/ create_student
    \/ get_all_students
    \/ get_student
    \/ update_student
    \/ delete_student
    \/ Advance

Spec == Init /\ [][Next]_vars

(* one request at a time: a request is accepted only while none is in *)
(* flight, and then runs to its end                                   *)
Quiet == req = EmptyBag

NextSerial ==
    \/ Quiet /\ create_student
    \/ Quiet /\ get_all_students
    \/ Quiet /\ get_student
    \/ Quiet /\ update_student
    \/ Quiet /\ delete_student
    \/ Advance

SpecSerial == Init /\ [][NextSerial]_vars

(* a handler that was entered runs to its end: the worker threads are not *)
(* starved while a request is in flight                                   *)
FairSpec == Spec /\ WF_vars(Advance)

----------------------------------------------------------------------------
(* Properties *)

(* a response is sent in this step *)
Answered == last'.seq # last.seq

(* the body is a write shape: every field present and of the declared JSON type *)
DeclaredShape(b) ==
    /\ b.name.k = "str"
    /\ b.email.k = "str"
    /\ b.age.k = "int"
    /\ b.course.k = "str"

(* the body has a missing field or a field that cannot be converted to the  *)
(* declared type: a string field that is no JSON string, an age that is     *)
(* neither a JSON integer nor a string of digits                            *)
Unconvertible(b) ==
    \/ b.name.k # "str"
    \/ b.email.k # "str"
    \/ b.course.k # "str"
    \/ b.age.k = "absent"
    \/ b.age.k = "str" /\ b.age.s \notin {"20", "21"}

(* the record with the given id and the four fields of write shape b *)
Written(id, b) ==
    [id |-> id, name |-> b.name.s, email |-> b.email.s, age |-> b.age.n,
     course |-> b.course.s]

(* C1: every successful create returns an id that no earlier create has     *)
(* returned, the ids of records deleted since included                      *)
C1_CreateNeverReissuesAnId ==
    [][(Answered /\ last'.op = "create" /\ last'.status = 201)
          => (last'.id \notin issued /\ \A x \in last'.rows : x.id \notin issued)]_vars

(* C2: a get, update or delete (with a valid body) of an id that no create  *)
(* has issued, or whose record has been deleted, is answered 404 "Student   *)
(* not found"                                                               *)
C2_UnissuedOrDeletedIdIsNotFound ==
    [][(/\ Answered
        /\ last'.op \in {"get", "update", "delete"}
        /\ last'.status # 422
        /\ (last'.id \notin issued \/ last'.id \in deletedIds))
          => (last'.status = 404 /\ last'.detail = "Student not found")]_vars

(* C3: under any interleaving of requests every update and every delete     *)
(* ends in success or in NotFound (or is refused as invalid), never in an   *)
(* unexpected error                                                         *)
C3_UpdateDeleteEndInSuccessOrNotFound ==
    last.op \in {"update", "delete"} => last.status \in {200, 404, 422}

(* C4: list_all returns as many records as there were successful creates    *)
(* minus successful deletes, all the stored records and none on an empty    *)
(* store; between requests the table holds that many records                *)
C4_ListLengthIsCreatedMinusDeleted ==
    /\ last.op = "list" => (last.status = 200 /\ Cardinality(last.rows) = net)
    /\ Quiet => Cardinality(store) = net
    /\ (Quiet /\ last.op = "list") => last.rows = store

C4_Witness ==
    /\ last.op = "list"
    /\ Cardinality(last.rows) = 1
    /\ deletedIds # {}
    /\ \E x \in last.rows : x.id \in deletedIds

(* C5: a successful update(id, W) returns the record with that id and the   *)
(* four fields of W, and a get(id) that directly follows returns the same   *)
C5_UpdateThenGetReturnsW ==
    /\ (last.op = "update" /\ last.status = 200)
          => \A b \in last.body :
                DeclaredShape(b) => last.rows = {Written(last.id, b)}
    /\ \A a \in last.after : \A b \in a.body :
          (last.op = "get" /\ a.op = "update" /\ DeclaredShape(b))
             => (last.status = 200 /\ last.rows = {Written(last.id, b)})

C5_Witness ==
    /\ last.op = "get"
    /\ last.status = 200
    /\ \E a \in last.after : \E b \in a.body :
          a.op = "update" /\ DeclaredShape(b) /\ b.name.s = "" /\ b.age.n = 21

(* C6: create(W) returns a record with an assigned id and the fields of W,  *)
(* and a get of that id that directly follows returns the same record       *)
C6_CreateThenGetReturnsW ==
    /\ (last.op = "create" /\ last.status = 201)
          => /\ last.id >= 1
             /\ \A b \in last.body :
                   DeclaredShape(b) => last.rows = {Written(last.id, b)}
    /\ \A a \in last.after : \A b \in a.body :
          (last.op = "get" /\ a.op = "create" /\ DeclaredShape(b))
             => (last.status = 200 /\ last.rows = {Written(last.id, b)})

C6_Witness ==
    /\ last.op = "get"
    /\ last.status = 200
    /\ \E a \in last.after : \E b \in a.body :
          a.op = "create" /\ DeclaredShape(b) /\ b.age.n = 21

(* C7: every request in flight holds one session of its own and no session  *)
(* stays open once its request is over; however the requests end, the       *)
(* sessions that are open are closed again and again: none stays open       *)
C7_SessionClosedOnEveryExit ==
    /\ [](sessions = BagCardinality(req))
    /\ []<>(sessions = 0)

C7_Witness ==
    /\ last.status = 500
    /\ req = EmptyBag
    /\ sessions = 0

(* C8 as written: a create or update whose body has a missing field or a    *)
(* field of another JSON type than declared is answered 422                 *)
C8_WrongShapeRejected ==
    (last.op \in {"create", "update"} /\ \E b \in last.body : ~DeclaredShape(b))
        => last.status = 422

(* C8 amended: a create or update whose body has a missing field or a field *)
(* that cannot be converted to the declared type is answered 422, and a     *)
(* request answered 422 leaves the table as it was                          *)
C8_UnconvertibleRejectedBeforeMutation ==
    [][/\ (/\ Answered
           /\ last'.op \in {"create", "update"}
           /\ \E b \in last'.body : Unconvertible(b))
             => (last'.status = 422 /\ store' = store)
       /\ (Answered /\ last'.status = 422) => store' = store]_vars

C8_Witness ==
    /\ last.status = 422
    /\ store # {}
    /\ \E b \in last.body : Unconvertible(b)

(* C9: no stored record has an empty name *)
C9_StoredNamesNonEmpty == \A x \in store : x.name # ""

(* C10: a step changes at most the record a committing update or delete     *)
(* targets, or adds the record a create inserts; a get, a list_all and a    *)
(* request answered 404, 422 or 500 change nothing                          *)
C10_OnlyTheTargetRecordChanges ==
    [][LET changed == {x.id : x \in (store \ store') \cup (store' \ store)}
       IN /\ \/ changed = {}
             \/ \E r \in BagToSet(req) :
                   /\ r.op \in {"update", "delete"}
                   /\ r.pc = "commit"
                   /\ CopiesIn(r, req') < CopiesIn(r, req)
                   /\ changed = {r.id}
             \/ \E r \in BagToSet(req') :
                   /\ r.op = "create"
                   /\ CopiesIn(r, req') > CopiesIn(r, req)
                   /\ changed = {r.id}
                   /\ \A x \in store : x.id # r.id
          /\ (Answered /\ last'.op \in {"get", "list"}) => store' = store
          /\ (Answered /\ last'.status \in {404, 422, 500}) => store' = store]_vars

C10_Witness ==
    /\ last.op = "update"
    /\ last.status = 200
    /\ \E x \in store : x.id = last.id /\ x.name = ""
    /\ \E x \in store : x.id # last.id /\ x.name = "Ann"

====
